---- MODULE Spec2Model ----
(***************************************************************************)
(* Model of app/services/location_service.py (LocationService) and of the *)
(* Location / Coordinates models it builds.                                *)
(*                                                                         *)
(* One LocationService object is shared by the coroutines of Tasks, which  *)
(* run on one asyncio event loop: a coroutine keeps the loop until it      *)
(* suspends or returns.  A load is modelled step by step (entry, opening   *)
(* of the source, one step per row, completion) so that the intermediate   *)
(* contents of self.locations are states of the model.                     *)
(***************************************************************************)
EXTENDS Integers, Sequences, FiniteSets, TLC

(* ------------------------------ bounds -------------------------------- *)
\* longest raw-record source handed to a load
MaxRecords == 2
\* number of successful loads after which no further load is started
MaxClock == 2
\* largest n passed to find_nearest_n_locations
MaxN == 3

(* ------------------------- values and sentinels ----------------------- *)
Tasks == {"t1", "t2"}
NoTask == "none"

\* Python None for Optional[datetime] last_loaded; clock readings start at 1
NoneTime == 0

\* raw cell kinds of a latitude / longitude column
\*   num    : a number (int or float)
\*   str    : a string that float() cannot parse
\*   none   : Python None (SQL NULL in an object column)
Cell(k, v) == [k |-> k, v |-> v]
Num(v) == Cell("num", v)
NonNumeric == Cell("str", 0)
NoneCell == Cell("none", 0)

\* raw string cells use the strings themselves; the key of an absent column
\* is the sentinel Absent, a NULL value the sentinel NoneStr
Absent == "<absent>"
NoneStr == "<None>"

RawRecord(id, name, lat, lon, active) ==
    [id |-> id, name |-> name, address |-> name,
     latitude |-> lat, longitude |-> lon, region |-> Absent, active |-> active]

\* raw records a source may hold
RowA == RawRecord("1", "Hub A", Num(0), Num(0), "true")
\* RowB and RowInactive have no id; RowB carries a region tag
RowB == [RawRecord(Absent, "Hub B", Num(0), Num(90), "true") EXCEPT !.region = "north"]
RowInactive == RawRecord(Absent, "Hub C", Num(0), Num(0), "false")
RowBadLat == RawRecord("4", "Hub D", NonNumeric, Num(0), "true")
RowLonOut == RawRecord("5", "Hub E", Num(0), Num(270), "true")
RowNullLat == RawRecord("6", "Hub F", NoneCell, Num(0), "true")

\* the three values settings.DATA_SOURCE_TYPE may take
DataSourceTypes == {"csv", "google_sheets", "postgres"}

\* rows a source of each type may hold: a CSV file or a sheet has no None
\* cell (an empty cell reads as NaN or ""), a database column may hold NULL
SourceRows(type) ==
    IF type = "postgres"
    THEN {RowA, RowB, RowInactive, RowBadLat, RowLonOut, RowNullLat}
    ELSE {RowA, RowB, RowInactive, RowBadLat, RowLonOut}

SeqsUpTo(S, n) == UNION {[1..k -> S] : k \in 0..n}

\* contents the configured source may have when a load opens it
Sources(type) == SeqsUpTo(SourceRows(type), MaxRecords)

(* ------------------------------ models -------------------------------- *)
\* Coordinates: latitude ge=-90 le=90, longitude ge=-180 le=180
CoordinatesValidMutant(lat, lon) == lat >= -90 /\ lat <= 90
CoordinatesValid(lat, lon) ==
    /\ lat >= -90 /\ lat <= 90
    /\ lon >= -180 /\ lon <= 180

Coordinates(lat, lon) == [latitude |-> lat, longitude |-> lon]

\* Location(...) as the loaders fill it
Location(id, name, address, coordinates, region, active) ==
    [id |-> id, name |-> name, address |-> address,
     coordinates |-> coordinates, region |-> region, active |-> active]

NoLocation == Location("", "", "", Coordinates(0, 0), "", FALSE)

\* str(row.get("id", ""))
IdOf(row) == IF row.id = Absent THEN "" ELSE IF row.id = NoneStr THEN "None" ELSE row.id

\* row.get("region")
RegionOf(row) == IF row.region = Absent THEN NoneStr ELSE row.region

\* bool(row.get("active", True)): "true" and "false" are the booleans True
\* and False, every other cell is a non-empty string, which bool() takes
\* for True
ActiveOf(row) ==
    IF row.active = Absent THEN TRUE
    ELSE IF row.active = NoneStr THEN FALSE
    ELSE row.active # "false"

\* float(cell): the exception it raises, "" when it returns
FloatExc(cell) ==
    CASE cell.k = "num" -> ""
      [] cell.k = "str" -> "ValueError"
      [] cell.k = "none" -> "TypeError"

\* The body of the try block of one row: the keyword arguments of Location
\* are evaluated in order (row["name"], row["address"], float(latitude),
\* float(longitude), Coordinates(...)), then Location validates its fields.
\* exc is the exception raised ("" when the Location is built).
ParseRow(row) ==
    LET fail(e) == [exc |-> e, location |-> NoLocation] IN
    IF row.name = Absent \/ row.address = Absent THEN fail("KeyError")
    ELSE IF FloatExc(row.latitude) # "" THEN fail(FloatExc(row.latitude))
    ELSE IF FloatExc(row.longitude) # "" THEN fail(FloatExc(row.longitude))
    ELSE IF ~CoordinatesValid(row.latitude.v, row.longitude.v) THEN fail("ValueError")
    ELSE IF row.name = NoneStr \/ row.address = NoneStr THEN fail("ValueError")
    ELSE [exc |-> "",
          location |-> Location(IdOf(row), row.name, row.address,
                                Coordinates(row.latitude.v, row.longitude.v),
                                RegionOf(row), ActiveOf(row))]

\* a sheet cell as get_all_records returns it: a boolean cell comes as the
\* string "TRUE" or "FALSE"
SheetCell(cell) ==
    IF cell = "true" THEN "TRUE" ELSE IF cell = "false" THEN "FALSE" ELSE cell

\* rows the loader iterates over: the database loader selects the rows
\* WHERE active = TRUE, the sheet loader gets the cells as get_all_records
\* renders them, the CSV loader gets typed columns from pandas
ReadSource(type, src) ==
    IF type = "postgres" THEN SelectSeq(src, LAMBDA r : r.active = "true")
    ELSE IF type = "google_sheets"
    THEN [i \in 1..Len(src) |-> [src[i] EXCEPT !.active = SheetCell(src[i].active)]]
    ELSE src

(* ------------------------------- state -------------------------------- *)
VARIABLES
    data_source_type,  \* self.data_source_type, fixed at construction
    locations,         \* self.locations
    last_loaded,       \* self.last_loaded (NoneTime for None)
    clock,             \* the next reading of datetime.utcnow()
    loop,              \* the task running on the event loop, or NoTask
    pc,                \* position of each task's coroutine
    df,                \* rows read by the load in progress of each task
    idx,               \* index in df of the row the for loop handles next
    pre,               \* locations and last_loaded when the task's load was called
    snapshot,          \* locations as left by the last load that returned
    ret                \* outcome of the last call that returned or raised

\* the application around the service: main.py and the address router
VARIABLES
    started,           \* startup_event has completed
    load_calls,        \* calls of load_locations the application has made
    request,           \* the request handled last, with what its dependencies gave
    response,          \* the response to that request
    background_tasks,  \* tasks that request added to its BackgroundTasks
    notifications,     \* calls of send_notification made for that request
    settings           \* which webhook secrets the settings hold

service_vars == <<data_source_type, locations, last_loaded, clock, loop, pc, df,
                  idx, pre, snapshot, ret>>

app_vars == <<started, load_calls, request, response, background_tasks,
              notifications, settings>>

\* one GeocodingService
VARIABLES
    cache_enabled,     \* self.cache_enabled
    memo,              \* what lru_cache keeps of the calls of _get_cached_geocode
    api_requests,      \* GET requests sent to the geocoding API
    succeeded,         \* for each address, what its first successful call returned
    geocode_ret        \* outcome of the last call of geocode_address

geocoding_vars == <<cache_enabled, memo, api_requests, succeeded, geocode_ret>>

vars == <<data_source_type, locations, last_loaded, clock, loop, pc, df, idx,
          pre, snapshot, ret, started, load_calls, request, response,
          background_tasks, notifications, settings, cache_enabled, memo,
          api_requests, succeeded, geocode_ret>>

NoPre == [locations |-> <<>>, last_loaded |-> NoneTime]

\* the dictionary get_locations_count returns
Counts(total, active, inactive) == [total |-> total, active |-> active, inactive |-> inactive]
NoCounts == Counts(0, 0, 0)

\* outcome of a call: kind is "ok" or the class of the exception raised;
\* none tells that the call returned None, hubs is a list of Location
\* returned, counts a dictionary of counts returned, arg a string argument,
\* other a second Coordinates argument
Outcome(op, task, kind, msg, location, distance, list, point, n) ==
    [op |-> op, task |-> task, kind |-> kind, msg |-> msg,
     location |-> location, distance |-> distance, list |-> list,
     point |-> point, n |-> n,
     none |-> FALSE, hubs |-> <<>>, counts |-> NoCounts, arg |-> "",
     other |-> Coordinates(0, 0)]

NoOutcome == Outcome("none", NoTask, "ok", "", NoLocation, 0, <<>>, Coordinates(0, 0), 0)

LoadOutcome(op, task, kind, msg) ==
    Outcome(op, task, kind, msg, NoLocation, 0, <<>>, Coordinates(0, 0), 0)

\* outcome of geocode_address: the coordinates, or GeocodingError raised
Geocoded(kind, coordinates) == [kind |-> kind, coordinates |-> coordinates]

\* a request and what its dependencies resolved to: location_service is the
\* list self.locations of the service get_location_service yielded
\* addresses are the geocoding outcomes of the addresses of a batch;
\* signature and payload belong to a webhook; geocode_calls and lookups count
\* the calls of geocode_address and find_nearest_location the handler made,
\* extracted tells that it built an AddressInput from the payload
Request(route, location_id, geocode, send_notification, dependency, location_service) ==
    [route |-> route, location_id |-> location_id, geocode |-> geocode,
     send_notification |-> send_notification, dependency |-> dependency,
     location_service |-> location_service,
     addresses |-> <<>>, max_batch_size |-> 0,
     active_only |-> FALSE, region |-> NoneStr,
     signature |-> "", payload |-> {},
     geocode_calls |-> 0, lookups |-> 0, extracted |-> FALSE]

NoRequest == Request("none", "", Geocoded("none", Coordinates(0, 0)), FALSE, "none", <<>>)

\* a response: result tells whether a body of the response model is returned;
\* list is a body that is a list, counts a body that is a dictionary of counts
Response(status, detail, result, location, distance_km) ==
    [status |-> status, detail |-> detail, result |-> result,
     location |-> location, distance_km |-> distance_km,
     list |-> <<>>, counts |-> NoCounts]

NoResponse == Response(0, "", FALSE, NoLocation, 0)

\* addresses handed to geocode_address
Addresses == {"a1", "a2"}

\* a value of type Optional[Tuple[Coordinates, str]]: kind is "None" for
\* None, "unset" for no value at all
GeoResult(kind, coordinates, formatted_address) ==
    [kind |-> kind, coordinates |-> coordinates, formatted_address |-> formatted_address]

NoneResult == GeoResult("None", Coordinates(0, 0), "")
Unset == GeoResult("unset", Coordinates(0, 0), "")

\* outcome of a call of geocode_address: call counts the calls
GeocodeOutcome(call, address, kind, result) ==
    [call |-> call, address |-> address, kind |-> kind, result |-> result]

\* GeocodingService.__init__ with CACHE_GEOCODING_RESULTS = enabled
GeocodingInit(enabled) ==
    /\ cache_enabled = enabled
    /\ memo = [a \in Addresses |-> Unset]
    /\ api_requests = 0
    /\ succeeded = [a \in Addresses |-> Unset]
    /\ geocode_ret = GeocodeOutcome(0, "", "ok", Unset)

\* WEBHOOK_SECRET and TYPEFORM_WEBHOOK_SECRET: whether a secret is set
Settings(webhook_secret, typeform_webhook_secret) ==
    [WEBHOOK_SECRET |-> webhook_secret,
     TYPEFORM_WEBHOOK_SECRET |-> typeform_webhook_secret]

\* both default to None
DefaultSettings == Settings(FALSE, FALSE)

AllSettings == {Settings(w, t) : w \in BOOLEAN, t \in BOOLEAN}

\* the application before it starts
ApplicationInit ==
    /\ notifications = <<>>
    /\ started = FALSE
    /\ load_calls = 0
    /\ request = NoRequest
    /\ response = NoResponse
    /\ background_tasks = <<>>

\* LocationService.__init__
ServiceInit ==
    /\ data_source_type \in DataSourceTypes
    /\ locations = <<>>
    /\ last_loaded = NoneTime
    /\ clock = 1
    /\ loop = NoTask
    /\ pc = [t \in Tasks |-> "idle"]
    /\ df = [t \in Tasks |-> <<>>]
    /\ idx = [t \in Tasks |-> 1]
    /\ pre = [t \in Tasks |-> NoPre]
    /\ snapshot = <<>>
    /\ ret = NoOutcome

Init ==
    /\ ServiceInit /\ ApplicationInit /\ GeocodingInit(TRUE)
    /\ settings = DefaultSettings

(* ------------------------------ loading ------------------------------- *)
\* the event loop gives the thread to a task only when no other task holds it
CanRun(t) == loop = NoTask \/ loop = t

\* whether the for loop over the rows hands the event loop back between two
\* rows: its body holds no await
RowLoopSuspendsMutant == TRUE
RowLoopSuspends == FALSE

\* entry of load_locations, up to the try
load_locations(t) ==
    /\ pc[t] = "idle"
    /\ CanRun(t)
    /\ clock <= MaxClock
    /\ pc' = [pc EXCEPT ![t] = "load_locations"]
    /\ pre' = [pre EXCEPT ![t] = [locations |-> locations, last_loaded |-> last_loaded]]
    /\ loop' = t
    /\ ret' = NoOutcome
    /\ UNCHANGED <<data_source_type, locations, last_loaded, clock, df, idx, snapshot>>

\* reload_locations: return await self.load_locations()
reload_locations(t) == load_locations(t)

InLoad(t) == pc[t] = "load_locations"

\* the except clause of load_locations: LocationServiceError is raised to
\* the caller of the load
RaiseFromLoad(t, msg) ==
    /\ ret' = LoadOutcome("load_locations", t, "LocationServiceError", msg)
    /\ pc' = [pc EXCEPT ![t] = "idle"]
    /\ df' = [df EXCEPT ![t] = <<>>]
    /\ idx' = [idx EXCEPT ![t] = 1]
    /\ pre' = [pre EXCEPT ![t] = NoPre]
    /\ loop' = NoTask

\* the load is inside the for loop of its loader
InRows(t) == pc[t] = "rows"

\* _load_from_csv / _load_from_google_sheets / _load_from_database up to the
\* for loop: the source is checked and read, then self.locations is cleared
OpenSource(t) ==
    /\ InLoad(t) /\ CanRun(t)
    /\ \/ \* the source cannot be read: the loader raises before it clears
          /\ RaiseFromLoad(t, "source")
          /\ UNCHANGED <<data_source_type, locations, last_loaded, clock, snapshot>>
       \/ \E src \in Sources(data_source_type) :
          /\ df' = [df EXCEPT ![t] = ReadSource(data_source_type, src)]
          /\ locations' = <<>>
          /\ pc' = [pc EXCEPT ![t] = "rows"]
          /\ UNCHANGED <<data_source_type, last_loaded, clock, loop, idx, pre,
                         snapshot, ret>>

\* one iteration of the for loop over the rows
ProcessRow(t) ==
    /\ InRows(t) /\ CanRun(t)
    /\ idx[t] <= Len(df[t])
    /\ LET r == ParseRow(df[t][idx[t]]) IN
         IF r.exc \in {"", "KeyError", "ValueError"}
         THEN /\ locations' = IF r.exc = "" THEN Append(locations, r.location)
                              ELSE locations
              /\ idx' = [idx EXCEPT ![t] = idx[t] + 1]
              /\ loop' = IF RowLoopSuspends THEN NoTask ELSE t
              /\ UNCHANGED <<data_source_type, last_loaded, clock, pc, df, pre,
                             snapshot, ret>>
         ELSE \* except Exception of the loader, then of load_locations
              /\ RaiseFromLoad(t, "row")
              /\ UNCHANGED <<data_source_type, locations, last_loaded, clock, snapshot>>

\* the loader returns; load_locations sets last_loaded and returns
\* self.locations
FinishLoad(t) ==
    /\ InRows(t) /\ CanRun(t)
    /\ idx[t] > Len(df[t])
    /\ last_loaded' = clock
    /\ clock' = clock + 1
    /\ snapshot' = locations
    /\ ret' = LoadOutcome("load_locations", t, "ok", "")
    /\ pc' = [pc EXCEPT ![t] = "idle"]
    /\ df' = [df EXCEPT ![t] = <<>>]
    /\ idx' = [idx EXCEPT ![t] = 1]
    /\ pre' = [pre EXCEPT ![t] = NoPre]
    /\ loop' = NoTask
    /\ UNCHANGED <<data_source_type, locations>>

(* ------------------------------ distance ------------------------------ *)
\* Coordinates of the model are multiples of 90 degrees, where the terms of
\* the haversine formula are exact.
Abs(x) == IF x < 0 THEN 0 - x ELSE x

\* 2 * sin(delta / 2) ** 2 for delta a multiple of 90 degrees
TwiceSinSqHalf(delta) ==
    LET d == Abs(delta) % 360 IN
    IF d = 0 THEN 0 ELSE IF d = 180 THEN 2 ELSE 1

\* cos(lat) for lat in {-90, 0, 90}
Cos(lat) == IF lat = 0 THEN 1 ELSE 0

\* haversine(point1, point2, unit=Unit.KILOMETERS), rounded to the kilometre:
\* d = sin(dlat/2)**2 + cos(lat1) * cos(lat2) * sin(dlng/2)**2 and
\* 2 * 6371.0088 * asin(sqrt(d)), where d is 0, 1/2 or 1
haversineMutant(point1, point2) ==
    LET twice_d == TwiceSinSqHalf(point2.latitude - point1.latitude)
                   + Cos(point1.latitude) * Cos(point1.latitude)
                     * TwiceSinSqHalf(point2.longitude - point1.longitude)
    IN  IF twice_d = 0 THEN 0 ELSE IF twice_d = 1 THEN 10008 ELSE 20015

haversine(point1, point2) ==
    LET twice_d == TwiceSinSqHalf(point2.latitude - point1.latitude)
                   + Cos(point1.latitude) * Cos(point2.latitude)
                     * TwiceSinSqHalf(point2.longitude - point1.longitude)
    IN  IF twice_d = 0 THEN 0 ELSE IF twice_d = 1 THEN 10008 ELSE 20015

\* points of the grid of multiples of 90 degrees
GridPoints ==
    {Coordinates(lat, lon) : lat \in {-90, 0, 90}, lon \in {-180, -90, 0, 90, 180}}

\* calculate_distance (a static method): the haversine of the two points
calculate_distance ==
    /\ loop = NoTask
    /\ \E point1 \in GridPoints, point2 \in GridPoints :
         ret' = [Outcome("calculate_distance", NoTask, "ok", "", NoLocation,
                         haversine(point1, point2), <<>>, point1, 0)
                 EXCEPT !.other = point2]
    /\ UNCHANGED <<data_source_type, locations, last_loaded, clock, loop, pc, df,
                   idx, pre, snapshot>>

\* query points handed to the resolver
Points == {Coordinates(0, 0), Coordinates(0, 90), Coordinates(90, 0)}

(* ------------------------------ queries ------------------------------- *)
\* [loc for loc in self.locations if loc.active]
ActiveLocationsMutant(locs) == locs
ActiveLocations(locs) == SelectSeq(locs, LAMBDA loc : loc.active)

\* the list of (location, distance) pairs of the active locations
Distances(coordinates, active_locations) ==
    [i \in 1..Len(active_locations) |->
        <<active_locations[i],
          haversine(coordinates, active_locations[i].coordinates)>>]

\* min(distances, key=lambda x: x[1]): a left-to-right scan that replaces the
\* current minimum only by a strictly smaller key
RECURSIVE MinScanFarthest(_, _, _)
MinScanFarthest(distances, i, best) ==
    IF i > Len(distances) THEN best
    ELSE MinScanFarthest(distances, i + 1,
                 IF distances[i][2] > best[2] THEN distances[i] ELSE best)

RECURSIVE MinScanLast(_, _, _)
MinScanLast(distances, i, best) ==
    IF i > Len(distances) THEN best
    ELSE MinScanLast(distances, i + 1,
                 IF distances[i][2] <= best[2] THEN distances[i] ELSE best)

RECURSIVE MinScan(_, _, _)
MinScan(distances, i, best) ==
    IF i > Len(distances) THEN best
    ELSE MinScan(distances, i + 1,
                 IF distances[i][2] < best[2] THEN distances[i] ELSE best)

MinByDistance(distances) == MinScan(distances, 2, distances[1])

\* the exceptions of the two resolvers
NoLocationsLoaded == [kind |-> "LocationServiceError", msg |-> "No locations loaded"]
NoActiveLocationsMutant == [kind |-> "ValueError", msg |-> "min() arg is an empty sequence"]
NoActiveLocations == [kind |-> "LocationServiceError", msg |-> "No active locations found"]

\* find_nearest_location as a function of self.locations and the point
FindNearestLocation(locs, coordinates) ==
    LET active_locations == ActiveLocations(locs)
        raise(e) == [kind |-> e.kind, msg |-> e.msg, location |-> NoLocation, distance |-> 0]
    IN  IF locs = <<>> THEN raise(NoLocationsLoaded)
        ELSE IF active_locations = <<>> THEN raise(NoActiveLocations)
        ELSE LET m == MinByDistance(Distances(coordinates, active_locations))
             IN  [kind |-> "ok", msg |-> "", location |-> m[1], distance |-> m[2]]

\* self.locations after a resolver ran: both build new lists
\* (active_locations, distances) and never assign to self.locations
LocationsAfterQueryMutant(locs) == ActiveLocations(locs)
LocationsAfterQuery(locs) == locs

\* a call of find_nearest_location by a coroutine: it does not await
find_nearest_location(t) ==
    /\ pc[t] = "idle" /\ loop = NoTask
    /\ \E point \in Points :
         LET r == FindNearestLocation(locations, point) IN
         ret' = Outcome("find_nearest_location", t, r.kind, r.msg, r.location,
                        r.distance, <<>>, point, 0)
    /\ locations' = LocationsAfterQuery(locations)
    /\ UNCHANGED <<data_source_type, last_loaded, clock, loop, pc, df,
                   idx, pre, snapshot>>

\* sorted(distances, key=lambda x: x[1]): a stable sort; x is placed behind
\* every pair whose distance is not larger
InsertByDistanceMutant(sorted, x) ==
    LET before == SelectSeq(sorted, LAMBDA y : y[2] < x[2])
        after == SelectSeq(sorted, LAMBDA y : y[2] >= x[2])
    IN  before \o <<x>> \o after

InsertByDistance(sorted, x) ==
    LET before == SelectSeq(sorted, LAMBDA y : y[2] <= x[2])
        after == SelectSeq(sorted, LAMBDA y : y[2] > x[2])
    IN  before \o <<x>> \o after

RECURSIVE SortedByDistance(_)
SortedByDistance(distances) ==
    IF distances = <<>> THEN <<>>
    ELSE InsertByDistance(SortedByDistance(SubSeq(distances, 1, Len(distances) - 1)),
                          distances[Len(distances)])

\* s[:n]: a negative n counts from the end of the list
SliceTo(s, n) ==
    LET stop == IF n < 0 THEN (IF Len(s) + n < 0 THEN 0 ELSE Len(s) + n)
                ELSE (IF n > Len(s) THEN Len(s) ELSE n)
    IN  SubSeq(s, 1, stop)

\* find_nearest_n_locations as a function of self.locations, the point and n
FindNearestNLocations(locs, coordinates, n) ==
    LET active_locations == ActiveLocations(locs)
        raise(e) == [kind |-> e.kind, msg |-> e.msg, list |-> <<>>]
    IN  IF locs = <<>> THEN raise(NoLocationsLoaded)
        ELSE IF active_locations = <<>> THEN raise(NoActiveLocations)
        ELSE [kind |-> "ok", msg |-> "",
              list |-> SliceTo(SortedByDistance(Distances(coordinates, active_locations)), n)]

\* the values of n the callers pass
Ns == (0 - MaxN)..MaxN

\* a call of find_nearest_n_locations by a coroutine: it does not await
find_nearest_n_locations(t) ==
    /\ pc[t] = "idle" /\ loop = NoTask
    /\ \E point \in Points, n \in Ns :
         LET r == FindNearestNLocations(locations, point, n) IN
         ret' = Outcome("find_nearest_n_locations", t, r.kind, r.msg, NoLocation,
                        0, r.list, point, n)
    /\ locations' = LocationsAfterQuery(locations)
    /\ UNCHANGED <<data_source_type, last_loaded, clock, loop, pc, df,
                   idx, pre, snapshot>>

(* ------------------------- structural queries ------------------------- *)
\* get_location_by_id: the index of the first location whose id is
\* location_id, 0 when the loop ends without a match (return None)
RECURSIVE IndexByIdLast(_, _, _)
IndexByIdLast(locs, location_id, i) ==
    IF i > Len(locs) THEN 0
    ELSE LET later == IndexByIdLast(locs, location_id, i + 1) IN
         IF later # 0 THEN later
         ELSE IF locs[i].id = location_id THEN i ELSE 0

RECURSIVE IndexById(_, _, _)
IndexById(locs, location_id, i) ==
    IF i > Len(locs) THEN 0
    ELSE IF locs[i].id = location_id THEN i
    ELSE IndexById(locs, location_id, i + 1)

\* get_location_by_id as a function of self.locations and the id
GetLocationById(locs, location_id) ==
    LET i == IndexById(locs, location_id, 1) IN
    IF i = 0 THEN [none |-> TRUE, location |-> NoLocation]
    ELSE [none |-> FALSE, location |-> locs[i]]

\* get_locations_by_region
GetLocationsByRegion(locs, region) == SelectSeq(locs, LAMBDA loc : loc.region = region)

\* get_locations_count
GetLocationsCountMutant(locs) ==
    LET active_count == Len(SelectSeq(locs, LAMBDA loc : loc.active))
    IN  Counts(Len(locs), active_count, Len(locs))

GetLocationsCount(locs) ==
    LET active_count == Len(SelectSeq(locs, LAMBDA loc : loc.active))
        inactive_count == Len(locs) - active_count
    IN  Counts(Len(locs), active_count, inactive_count)

\* ids and regions the callers ask for
LocationIds == {"1", "", "stats"}
Regions == {"north", "south"}

QueryOutcome(op, t) == Outcome(op, t, "ok", "", NoLocation, 0, <<>>, Coordinates(0, 0), 0)

get_location_by_id(t) ==
    /\ pc[t] = "idle" /\ loop = NoTask
    /\ \E location_id \in LocationIds :
         LET r == GetLocationById(locations, location_id) IN
         ret' = [QueryOutcome("get_location_by_id", t) EXCEPT
                    !.none = r.none, !.location = r.location, !.arg = location_id]
    /\ UNCHANGED <<data_source_type, locations, last_loaded, clock, loop, pc, df,
                   idx, pre, snapshot>>

get_locations_by_region(t) ==
    /\ pc[t] = "idle" /\ loop = NoTask
    /\ \E region \in Regions :
         ret' = [QueryOutcome("get_locations_by_region", t) EXCEPT
                    !.hubs = GetLocationsByRegion(locations, region), !.arg = region]
    /\ UNCHANGED <<data_source_type, locations, last_loaded, clock, loop, pc, df,
                   idx, pre, snapshot>>

get_locations_count(t) ==
    /\ pc[t] = "idle" /\ loop = NoTask
    /\ ret' = [QueryOutcome("get_locations_count", t) EXCEPT
                  !.counts = GetLocationsCount(locations)]
    /\ UNCHANGED <<data_source_type, locations, last_loaded, clock, loop, pc, df,
                   idx, pre, snapshot>>

(* ---------------------------- application ---------------------------- *)
MaxLoadCalls == 3

\* a second record with the id of RowA, with a region tag
RowSameId == [RawRecord("1", "Hub A2", Num(0), Num(90), "true") EXCEPT !.region = "north"]

\* contents the configured source may have when the application loads it
AppSourceRows(type) == (SourceRows(type) \ {RowB, RowLonOut}) \cup {RowSameId}

AppSources(type) == SeqsUpTo(AppSourceRows(type), MaxRecords)

\* the for loop of a loader run to its end on the rows df from row i on,
\* acc being self.locations so far
RECURSIVE LoadRows(_, _, _)
LoadRows(rows, i, acc) ==
    IF i > Len(rows) THEN [kind |-> "ok", locations |-> acc]
    ELSE LET r == ParseRow(rows[i]) IN
         IF r.exc = "" THEN LoadRows(rows, i + 1, Append(acc, r.location))
         ELSE IF r.exc \in {"KeyError", "ValueError"} THEN LoadRows(rows, i + 1, acc)
         ELSE [kind |-> "LocationServiceError", locations |-> acc]

\* load_locations run to its end on a service just built
LoadFresh(type, src) == LoadRows(ReadSource(type, src), 1, <<>>)

\* the source cannot be read: the loader raises before the loop
LoadUnreachable == [kind |-> "LocationServiceError", locations |-> <<>>]

\* what a load of a service just built may give
FreshLoads(type) == {LoadFresh(type, src) : src \in AppSources(type)} \cup {LoadUnreachable}

\* startup_event of main.py: builds a LocationService, loads it and lets it
\* go; an exception of the load ends the startup
startup_event ==
    /\ ~started
    /\ load_calls < MaxLoadCalls
    /\ \E load \in FreshLoads(data_source_type) :
         /\ load_calls' = load_calls + 1
         /\ started' = (load.kind = "ok")
    /\ UNCHANGED <<request, response, background_tasks, notifications, settings>>
    /\ UNCHANGED service_vars
    /\ UNCHANGED geocoding_vars

\* an exception a dependency raises reaches no handler of the route
InternalServerError == Response(500, "Internal Server Error", FALSE, NoLocation, 0)

\* a MatchResult: the geocoded coordinates, the matched location, the distance
MatchResult(coordinates, location, distance_km) ==
    [geocoded_coordinates |-> coordinates, matched_location |-> location,
     distance_km |-> distance_km]

\* what a handler did: its response, the tasks it added to background_tasks,
\* its calls of geocode_address and of find_nearest_location
Handled(resp, tasks, geocode_calls, lookups) ==
    [response |-> resp, background_tasks |-> tasks,
     geocode_calls |-> geocode_calls, lookups |-> lookups, extracted |-> FALSE]

NotHandled == Handled(InternalServerError, <<>>, 0, 0)

\* the application takes a request when the one before it is closed
Idle == started /\ request = NoRequest /\ load_calls < MaxLoadCalls

\* a request through its dependencies and its handler: get_location_service
\* builds a new LocationService and loads it as its locations are empty; the
\* handler runs when the load returned
Serve(req, load, handled) ==
    /\ load_calls' = load_calls + 1
    /\ LET h == IF load.kind # "ok" THEN NotHandled ELSE handled IN
         /\ request' = [req EXCEPT !.dependency = load.kind,
                                   !.location_service = load.locations,
                                   !.geocode_calls = h.geocode_calls,
                                   !.lookups = h.lookups,
                                   !.extracted = h.extracted]
         /\ response' = h.response
         /\ background_tasks' = h.background_tasks
    /\ notifications' = <<>>
    /\ UNCHANGED <<started, settings>>
    /\ UNCHANGED service_vars
    /\ UNCHANGED geocoding_vars

\* the except clauses of match_address
MatchErrorResponseMutant(kind) ==
    IF kind = "GeocodingError"
    THEN Response(400, "Geocoding error", FALSE, NoLocation, 0)
    ELSE Response(500, "Unexpected error", FALSE, NoLocation, 0)

MatchErrorResponse(kind) ==
    IF kind = "GeocodingError"
    THEN Response(400, "Geocoding error", FALSE, NoLocation, 0)
    ELSE IF kind = "LocationServiceError"
    THEN Response(500, "Location service error", FALSE, NoLocation, 0)
    ELSE Response(500, "Unexpected error", FALSE, NoLocation, 0)

\* whether match_address adds the notification task
QueuesNotificationMutant(send_notification) == TRUE
QueuesNotification(send_notification) == send_notification

\* the body of match_address
MatchAddress(locs, geocode, send_notification) ==
    IF geocode.kind # "ok"
    THEN Handled(MatchErrorResponse(geocode.kind), <<>>, 1, 0)
    ELSE LET nearest == FindNearestLocation(locs, geocode.coordinates) IN
         IF nearest.kind # "ok"
         THEN Handled(MatchErrorResponse(nearest.kind), <<>>, 1, 1)
         ELSE Handled(Response(200, "", TRUE, nearest.location, nearest.distance),
                      IF QueuesNotification(send_notification)
                      THEN <<MatchResult(geocode.coordinates, nearest.location,
                                         nearest.distance)>>
                      ELSE <<>>,
                      1, 1)

GeocodeOutcomes ==
    {Geocoded("ok", p) : p \in Points} \cup {Geocoded("GeocodingError", Coordinates(0, 0))}

\* POST /match
match_address ==
    /\ Idle
    /\ \E load \in FreshLoads(data_source_type), geocode \in GeocodeOutcomes,
          send_notification \in BOOLEAN :
         Serve(Request("match", "", geocode, send_notification, "", <<>>), load,
               MatchAddress(load.locations, geocode, send_notification))

MaxAddresses == 2

\* the default of the query parameter max_batch_size
DefaultMaxBatchSize == 100

\* values of max_batch_size
BatchLimits == {1, DefaultMaxBatchSize}

\* geocoding outcomes of the addresses of a batch
BatchGeocodes ==
    {Geocoded("ok", Coordinates(0, 0)), Geocoded("ok", Coordinates(0, 90)),
     Geocoded("GeocodingError", Coordinates(0, 0))}

\* whether the batch goes on after an address that raised
ContinuesAfterErrorMutant == FALSE
ContinuesAfterError == TRUE

\* the for loop of batch_match_addresses from address i on: acc holds the
\* results, the tasks added and the calls made so far
RECURSIVE BatchLoop(_, _, _, _, _)
BatchLoop(locs, addresses, send_notification, i, acc) ==
    IF i > Len(addresses) THEN acc
    ELSE LET geocode == addresses[i]
             nearest == FindNearestLocation(locs, geocode.coordinates)
             match_result == MatchResult(geocode.coordinates, nearest.location,
                                         nearest.distance)
         IN  IF geocode.kind # "ok"
             THEN IF ContinuesAfterError
                  THEN BatchLoop(locs, addresses, send_notification, i + 1,
                                 [acc EXCEPT !.geocode_calls = @ + 1])
                  ELSE [acc EXCEPT !.geocode_calls = @ + 1]
             ELSE IF nearest.kind # "ok"
             THEN IF ContinuesAfterError
                  THEN BatchLoop(locs, addresses, send_notification, i + 1,
                                 [acc EXCEPT !.geocode_calls = @ + 1, !.lookups = @ + 1])
                  ELSE [acc EXCEPT !.geocode_calls = @ + 1, !.lookups = @ + 1]
             ELSE BatchLoop(locs, addresses, send_notification, i + 1,
                            [acc EXCEPT !.geocode_calls = @ + 1, !.lookups = @ + 1,
                                        !.response.list = Append(@, match_result),
                                        !.background_tasks =
                                            IF send_notification
                                            THEN Append(@, match_result) ELSE @])

\* the size check of batch_match_addresses
ExceedsBatchSizeMutant(addresses, max_batch_size) == Len(addresses) > max_batch_size + 1
ExceedsBatchSize(addresses, max_batch_size) == Len(addresses) > max_batch_size

\* the body of batch_match_addresses
BatchMatchAddresses(locs, addresses, send_notification, max_batch_size) ==
    IF ExceedsBatchSize(addresses, max_batch_size)
    THEN Handled(Response(400, "Batch size exceeds maximum", FALSE, NoLocation, 0),
                 <<>>, 0, 0)
    ELSE BatchLoop(locs, addresses, send_notification, 1,
                   Handled(Response(200, "", TRUE, NoLocation, 0), <<>>, 0, 0))

\* POST /match/batch
batch_match_addresses ==
    /\ Idle
    /\ \E load \in FreshLoads(data_source_type),
          addresses \in SeqsUpTo(BatchGeocodes, MaxAddresses),
          send_notification \in BOOLEAN, max_batch_size \in BatchLimits :
         Serve([Request("batch", "", Geocoded("none", Coordinates(0, 0)),
                        send_notification, "", <<>>)
                EXCEPT !.addresses = addresses, !.max_batch_size = max_batch_size],
               load,
               BatchMatchAddresses(load.locations, addresses, send_notification,
                                   max_batch_size))

\* the body of get_location
GetLocation(locs, location_id) ==
    LET location == GetLocationById(locs, location_id) IN
    IF location.none THEN Response(404, "not found", FALSE, NoLocation, 0)
    ELSE Response(200, "", TRUE, location.location, 0)

\* the body of get_location_stats
GetLocationStats(locs) ==
    [Response(200, "", TRUE, NoLocation, 0) EXCEPT !.counts = GetLocationsCount(locs)]

\* last segments a path /locations/<segment> may carry
PathIds == {"1", "4", "stats"}

\* the GET routes of the router with a path /locations/<segment>, in the
\* order of their declaration
GetRoutes == <<"get_location", "get_location_stats">>

\* whether the path of a route matches /locations/<segment>:
\* /locations/{location_id} takes every segment, /locations/stats its own
RouteMatches(route, segment) ==
    IF route = "get_location" THEN TRUE ELSE segment = "stats"

\* the router hands the request to the first route whose path matches
RECURSIVE FirstMatch(_, _, _)
FirstMatch(routes, segment, i) ==
    IF i > Len(routes) THEN "none"
    ELSE IF RouteMatches(routes[i], segment) THEN routes[i]
    ELSE FirstMatch(routes, segment, i + 1)

Dispatch(segment) == FirstMatch(GetRoutes, segment, 1)

\* GET /locations/<segment>
get_location ==
    /\ Idle
    /\ \E load \in FreshLoads(data_source_type), segment \in PathIds :
         LET route == Dispatch(segment) IN
         Serve(Request(route, segment, Geocoded("none", Coordinates(0, 0)), FALSE,
                       "", <<>>),
               load,
               Handled(IF route = "get_location_stats"
                       THEN GetLocationStats(load.locations)
                       ELSE GetLocation(load.locations, segment),
                       <<>>, 0, 0))

\* the body of get_locations
GetLocations(locs, active_only, region) ==
    LET actives == IF active_only THEN SelectSeq(locs, LAMBDA loc : loc.active) ELSE locs
        \* if region: None and the empty string are false
        in_region == IF region # NoneStr /\ region # ""
                     THEN SelectSeq(actives, LAMBDA loc : loc.region = region)
                     ELSE actives
    IN  [Response(200, "", TRUE, NoLocation, 0) EXCEPT !.list = in_region]

\* values of the query parameter region: None when it is not given
RegionParams == {NoneStr, "", "north", "south"}

\* GET /locations
get_locations ==
    /\ Idle
    /\ \E load \in FreshLoads(data_source_type), active_only \in BOOLEAN,
          region \in RegionParams :
         Serve([Request("get_locations", "", Geocoded("none", Coordinates(0, 0)),
                        FALSE, "", <<>>)
                EXCEPT !.active_only = active_only, !.region = region],
               load,
               Handled(GetLocations(load.locations, active_only, region), <<>>, 0, 0))

\* values of a signature header: None, or a signature that matches the HMAC
\* of the body under the secret or does not
Signatures == {"missing", "invalid", "valid"}

\* fields a webhook payload holds or a form response yields
Payloads == {{"address", "email"}, {"address"}, {"email"}, {}}

\* an exception raised inside the try of a webhook handler
Raised(kind, status, detail) == [kind |-> kind, status |-> status, detail |-> detail]

\* the except clauses of the webhook handlers: HTTPException is an Exception
\* and is caught by the last one
WebhookErrorResponse(exc) ==
    IF exc.kind = "GeocodingError"
    THEN Response(400, "Geocoding error", FALSE, NoLocation, 0)
    ELSE IF exc.kind = "LocationServiceError"
    THEN Response(500, "Location service error", FALSE, NoLocation, 0)
    ELSE Response(500, "Unexpected error", FALSE, NoLocation, 0)

\* the try block of both webhook handlers once address_input is there
WebhookMatch(locs, geocode) ==
    IF geocode.kind # "ok"
    THEN [Handled(WebhookErrorResponse(Raised(geocode.kind, 0, "")), <<>>, 1, 0)
          EXCEPT !.extracted = TRUE]
    ELSE LET nearest == FindNearestLocation(locs, geocode.coordinates) IN
         IF nearest.kind # "ok"
         THEN [Handled(WebhookErrorResponse(Raised(nearest.kind, 0, "")), <<>>, 1, 1)
               EXCEPT !.extracted = TRUE]
         ELSE [Handled(Response(200, "", TRUE, nearest.location, nearest.distance),
                       <<MatchResult(geocode.coordinates, nearest.location,
                                     nearest.distance)>>, 1, 1)
               EXCEPT !.extracted = TRUE]

\* _validate_typeform_signature: compares the header with the HMAC of the body
validate_typeform_signatureMutant(signature) == TRUE
validate_typeform_signature(signature) == signature = "valid"

\* _validate_generic_signature: json.dumps raises NameError, the module does
\* not import json, and except Exception returns False
validate_generic_signature(signature) == FALSE

\* HTTPException(401) of the signature checks, raised outside the try
Unauthorized(detail) == Handled(Response(401, detail, FALSE, NoLocation, 0), <<>>, 0, 0)

\* the body of handle_typeform_webhook; payload holds the fields
\* _extract_address_from_typeform finds in the answers
HandleTypeformWebhook(locs, secret, signature, payload, geocode) ==
    IF secret /\ signature = "missing"
    THEN Unauthorized("Missing Typeform signature")
    ELSE IF secret /\ ~validate_typeform_signature(signature)
    THEN Unauthorized("Invalid Typeform signature")
    ELSE IF ~({"address", "email"} \subseteq payload)
    THEN \* _extract_address_from_typeform returned None
         Handled(WebhookErrorResponse(
                     Raised("HTTPException", 400,
                            "Could not extract address from form response")),
                 <<>>, 0, 0)
    ELSE WebhookMatch(locs, geocode)

\* the body of handle_generic_webhook
HandleGenericWebhook(locs, secret, signature, payload, geocode) ==
    IF secret /\ signature = "missing"
    THEN Unauthorized("Missing webhook signature")
    ELSE IF secret /\ ~validate_generic_signature(signature)
    THEN Unauthorized("Invalid webhook signature")
    ELSE IF ~({"address", "email"} \subseteq payload)
    THEN \* payload["address"] or payload["email"] raised KeyError
         Handled(WebhookErrorResponse(
                     Raised("HTTPException", 400, "Missing required field")),
                 <<>>, 0, 0)
    ELSE WebhookMatch(locs, geocode)

WebhookRequest(route, signature, payload, geocode) ==
    [Request(route, "", geocode, TRUE, "", <<>>)
     EXCEPT !.signature = signature, !.payload = payload]

\* POST /webhooks/typeform
handle_typeform_webhook ==
    /\ Idle
    /\ \E load \in FreshLoads(data_source_type), signature \in Signatures,
          payload \in Payloads, geocode \in GeocodeOutcomes :
         Serve(WebhookRequest("typeform", signature, payload, geocode), load,
               HandleTypeformWebhook(load.locations, settings.TYPEFORM_WEBHOOK_SECRET,
                                     signature, payload, geocode))

\* POST /webhooks/generic
handle_generic_webhook ==
    /\ Idle
    /\ \E load \in FreshLoads(data_source_type), signature \in Signatures,
          payload \in Payloads, geocode \in GeocodeOutcomes :
         Serve(WebhookRequest("generic", signature, payload, geocode), load,
               HandleGenericWebhook(load.locations, settings.WEBHOOK_SECRET,
                                    signature, payload, geocode))

\* a background task of the request runs after the response:
\* send_match_notification calls send_notification once and logs what it raises
send_match_notification ==
    /\ background_tasks # <<>>
    /\ \E outcome \in {"sent", "NotificationError"} :
         notifications' = Append(notifications,
                                 [match_result |-> Head(background_tasks),
                                  outcome |-> outcome])
    /\ background_tasks' = Tail(background_tasks)
    /\ UNCHANGED <<started, load_calls, request, response, settings>>
    /\ UNCHANGED service_vars
    /\ UNCHANGED geocoding_vars

\* the request is over once its background tasks have run: the dependencies
\* with yield are left and the objects of the request die
close_request ==
    /\ request # NoRequest
    /\ background_tasks = <<>>
    /\ request' = NoRequest
    /\ response' = NoResponse
    /\ notifications' = <<>>
    /\ UNCHANGED <<started, load_calls, background_tasks, settings>>
    /\ UNCHANGED service_vars
    /\ UNCHANGED geocoding_vars

(* ----------------------------- geocoding ------------------------------ *)
MaxGeocodeCalls == 3

\* what the HERE API answers to a request: items with the position and the
\* title of the best match, no items, an item without position, or a
\* failure of the request
ApiResponse(kind, position, title) == [kind |-> kind, position |-> position, title |-> title]

ApiResponses ==
    {ApiResponse("items", p, t) : p \in Points, t \in {"title", Absent}}
    \cup {ApiResponse(k, Coordinates(0, 0), Absent) :
            k \in {"no_items", "no_position", "HTTPStatusError", "RequestError"}}

\* the body of _get_cached_geocode: return None
CachedBody == NoneResult

\* _get_cached_geocode under lru_cache: the body runs on a miss of the memo
\* and its return value is kept
get_cached_geocode(m, address) ==
    IF m[address] # Unset THEN [value |-> m[address], memo |-> m]
    ELSE [value |-> CachedBody, memo |-> [m EXCEPT ![address] = CachedBody]]

\* _cache_geocode_result: calls _get_cached_geocode(address) and drops result
cache_geocode_result(m, address, result) == get_cached_geocode(m, address).memo

\* a call of geocode_address
geocode_address ==
    /\ geocode_ret.call < MaxGeocodeCalls
    /\ \E address \in Addresses, api \in ApiResponses :
         LET call == geocode_ret.call + 1
             lookup == IF cache_enabled
                       THEN get_cached_geocode(memo, address)
                       ELSE [value |-> NoneResult, memo |-> memo]
             result == GeoResult("ok", api.position,
                                 IF api.title = Absent THEN address ELSE api.title)
         IN  IF cache_enabled /\ lookup.value.kind = "ok"
             THEN \* cache hit
                  /\ geocode_ret' = GeocodeOutcome(call, address, "ok", lookup.value)
                  /\ memo' = lookup.memo
                  /\ UNCHANGED <<api_requests, succeeded>>
             ELSE /\ api_requests' = api_requests + 1
                  /\ IF api.kind = "items"
                     THEN /\ memo' = IF cache_enabled
                                     THEN cache_geocode_result(lookup.memo, address, result)
                                     ELSE memo
                          /\ succeeded' = IF succeeded[address] = Unset
                                          THEN [succeeded EXCEPT ![address] = result]
                                          ELSE succeeded
                          /\ geocode_ret' = GeocodeOutcome(call, address, "ok", result)
                     ELSE /\ memo' = lookup.memo
                          /\ geocode_ret' = GeocodeOutcome(call, address, "GeocodingError", Unset)
                          /\ UNCHANGED succeeded
    /\ UNCHANGED cache_enabled
    /\ UNCHANGED service_vars
    /\ UNCHANGED app_vars

(* --------------------------- specification ---------------------------- *)
\* one LocationService used by the coroutines of Tasks
ServiceNext ==
    \E t \in Tasks :
        \/ load_locations(t)
        \/ reload_locations(t)
        \/ OpenSource(t)
        \/ ProcessRow(t)
        \/ FinishLoad(t)
        \/ find_nearest_location(t)
        \/ find_nearest_n_locations(t)
        \/ get_location_by_id(t)
        \/ get_locations_by_region(t)
        \/ get_locations_count(t)

Next == ServiceNext /\ UNCHANGED app_vars /\ UNCHANGED geocoding_vars

AppNext ==
    \/ startup_event
    \/ match_address
    \/ batch_match_addresses
    \/ get_location
    \/ get_locations
    \/ handle_typeform_webhook
    \/ handle_generic_webhook
    \/ send_match_notification
    \/ close_request

AppInit ==
    /\ ServiceInit /\ ApplicationInit /\ GeocodingInit(TRUE)
    /\ settings \in AllSettings

AppSpec == AppInit /\ [][AppNext]_vars

\* the distance function applied to pairs of points
DistanceNext == calculate_distance /\ UNCHANGED app_vars /\ UNCHANGED geocoding_vars

DistanceSpec == Init /\ [][DistanceNext]_vars

\* one GeocodingService, with the cache enabled or not
GeocodingNext == geocode_address

GeocodingServiceInit ==
    /\ ServiceInit /\ ApplicationInit /\ settings = DefaultSettings
    /\ \E enabled \in BOOLEAN : GeocodingInit(enabled)

GeocodingSpec == GeocodingServiceInit /\ [][GeocodingNext]_vars

Spec == Init /\ [][Next]_vars

(* ----------------------- properties of the queries -------------------- *)
\* A query does not change the registry and a load clears ret when it is
\* called: while ret holds the outcome of a query, locations is the registry
\* that query read.
IsNearest == ret.op = "find_nearest_location"
IsNearestN == ret.op = "find_nearest_n_locations"

ActiveIdx == {i \in 1..Len(locations) : locations[i].active}
DistTo(i) == haversine(ret.point, locations[i].coordinates)

\* C1: on a registry with at least one active hub, find_nearest_location
\* returns (h, d) with h an active hub of the registry, d the distance from
\* the query point to h, and no active hub strictly closer than d.
C1_NearestIsClosestActive ==
    (IsNearest /\ ActiveIdx # {}) =>
        /\ ret.kind = "ok"
        /\ \E i \in ActiveIdx : locations[i] = ret.location
        /\ ret.distance = haversine(ret.point, ret.location.coordinates)
        /\ \A j \in ActiveIdx : DistTo(j) >= ret.distance

\* two active hubs at different distances, the nearer one second in the registry
C1_Witness ==
    /\ IsNearest /\ ret.kind = "ok"
    /\ \E i, j \in ActiveIdx : i < j /\ DistTo(j) < DistTo(i)

\* C2: a hub whose active flag is false is never returned by
\* find_nearest_location and never appears in the result of
\* find_nearest_n_locations, even when it is the closest hub.
C2_InactiveNeverReturned ==
    /\ (IsNearest /\ ret.kind = "ok") => ret.location.active
    /\ IsNearestN => \A p \in 1..Len(ret.list) : ret.list[p][1].active

\* an inactive hub is strictly closer to the query point than the hub returned
C2_Witness ==
    /\ IsNearest /\ ret.kind = "ok"
    /\ \E i \in 1..Len(locations) :
          ~locations[i].active /\ DistTo(i) < ret.distance

\* C3: on a registry without active hub (never loaded, empty or all hubs
\* inactive) find_nearest_location raises LocationServiceError in every one
\* of these cases and returns no hub and no distance.
C3_NoCandidatesRaises ==
    (IsNearest /\ ActiveIdx = {}) =>
        /\ ret.kind = "LocationServiceError"
        /\ ret.location = NoLocation

\* the registry holds hubs, all of them inactive, and the call raised
C3_Witness ==
    /\ IsNearest /\ locations # <<>> /\ ActiveIdx = {}
    /\ ret.kind = "LocationServiceError"

\* C4: among the active hubs at the minimal distance find_nearest_location
\* returns the first one in registry order, the same at every call.
C4_TieFirstInRegistryOrder ==
    (IsNearest /\ ret.kind = "ok") =>
        \E i \in ActiveIdx :
            /\ ret.location = locations[i]
            /\ \A j \in ActiveIdx : DistTo(j) >= DistTo(i)
            /\ \A j \in ActiveIdx : DistTo(j) = DistTo(i) => i <= j

\* two different active hubs are both at the minimal distance
C4_Witness ==
    /\ IsNearest /\ ret.kind = "ok"
    /\ \E i, j \in ActiveIdx :
          /\ i < j /\ locations[i] # locations[j]
          /\ DistTo(i) = ret.distance /\ DistTo(j) = ret.distance

\* (distance, registry index) of hub i comes before that of hub j
Before(i, j) == DistTo(i) < DistTo(j) \/ (DistTo(i) = DistTo(j) /\ i < j)

MinOf(a, b) == IF a < b THEN a ELSE b

\* C5: for n >= 1 and k >= 1 active hubs find_nearest_n_locations returns
\* exactly min(n, k) pairs: the min(n, k) active hubs of smallest distance,
\* in ascending order of distance, hubs at equal distance in registry order.
C5_NearestNSortedStable ==
    (IsNearestN /\ ret.n >= 1 /\ ActiveIdx # {}) =>
        /\ ret.kind = "ok"
        /\ Len(ret.list) = MinOf(ret.n, Cardinality(ActiveIdx))
        /\ \E f \in [1..Len(ret.list) -> ActiveIdx] :
              /\ \A p \in 1..Len(ret.list) :
                    ret.list[p] = <<locations[f[p]], DistTo(f[p])>>
              /\ \A p, q \in 1..Len(ret.list) : p < q => Before(f[p], f[q])
              /\ \A j \in ActiveIdx :
                    (\A p \in 1..Len(ret.list) : f[p] # j) =>
                        \A p \in 1..Len(ret.list) : Before(f[p], j)

\* two different hubs at the same distance are both returned
C5_Witness ==
    /\ IsNearestN /\ ret.kind = "ok" /\ ret.n >= 1
    /\ Len(ret.list) >= 2
    /\ ret.list[1][2] = ret.list[2][2] /\ ret.list[1][1] # ret.list[2][1]

\* C6: on a registry with at least one active hub find_nearest_n_locations
\* returns an empty sequence for every n <= 0.
C6_NonPositiveNEmpty ==
    (IsNearestN /\ ActiveIdx # {} /\ ret.n <= 0) =>
        (ret.kind = "ok" /\ ret.list = <<>>)

(* ------------------------ properties of the loads --------------------- *)
Queried == IsNearest \/ IsNearestN

\* C7: a query observes a hub sequence that is the complete result of one
\* load (the one published last) or the initial empty sequence, never a
\* sequence that was cleared and only partly refilled.
C7_QuerySeesCompleteLoad == Queried => locations = snapshot

\* the step in which the load of task t raises LocationServiceError
LoadFails(t) ==
    /\ pc[t] # "idle" /\ pc'[t] = "idle"
    /\ ret'.op = "load_locations" /\ ret'.kind = "LocationServiceError"

\* C8: when load_locations or reload_locations fails with
\* LocationServiceError, the hub sequence and last_loaded are what they were
\* before the call.
C8_FailedLoadLeavesRegistry ==
    [][\A t \in Tasks :
          LoadFails(t) => /\ locations' = pre[t].locations
                          /\ last_loaded' = pre[t].last_loaded]_vars

\* hubs built from the rows of a sequence of raw records that build one
HubsOf(rows) ==
    LET ok == SelectSeq(rows, LAMBDA r : ParseRow(r).exc = "")
    IN  [i \in 1..Len(ok) |-> ParseRow(ok[i]).location]

\* C9: at most one load of the registry is in progress at any time: while a
\* load is in progress no other task can enter load_locations or
\* reload_locations, and the hub sequence holds only hubs written by the
\* load in progress.
C9_OneLoadAtATime ==
    /\ Cardinality({t \in Tasks : pc[t] # "idle"}) <= 1
    /\ \A t \in Tasks : pc[t] # "idle" =>
          \A u \in Tasks \ {t} :
              ~ENABLED load_locations(u) /\ ~ENABLED reload_locations(u)
    /\ \A t \in Tasks : InRows(t) =>
          locations = HubsOf(SubSeq(df[t], 1, idx[t] - 1))

\* a reload is in the middle of its rows, after a load that returned, while
\* the other task waits
C9_Witness ==
    \E t \in Tasks :
        /\ InRows(t) /\ idx[t] > 1 /\ idx[t] <= Len(df[t])
        /\ locations # <<>> /\ last_loaded # NoneTime

\* the latitude or the longitude of a raw record is a non-numeric string or
\* a number outside [-90, 90] / [-180, 180]
BadCoordinates(row) ==
    \/ row.latitude.k = "str"
    \/ row.longitude.k = "str"
    \/ row.latitude.k = "num" /\ (row.latitude.v < -90 \/ row.latitude.v > 90)
    \/ row.longitude.k = "num" /\ (row.longitude.v < -180 \/ row.longitude.v > 180)

GoodCoordinates(row) ==
    /\ row.latitude.k = "num" /\ row.latitude.v >= -90 /\ row.latitude.v <= 90
    /\ row.longitude.k = "num" /\ row.longitude.v >= -180 /\ row.longitude.v <= 180

\* C10: a record whose latitude or longitude is non-numeric or out of range
\* is skipped and the load goes on without raising; when the load returns
\* the registry holds exactly the records with valid coordinates, in source
\* order.
C10_BadCoordinatesSkipped ==
    [][\A t \in Tasks : InRows(t) =>
          /\ (idx[t] <= Len(df[t]) /\ BadCoordinates(df[t][idx[t]]) /\ idx'[t] # idx[t]) =>
                /\ InRows(t)' /\ idx'[t] = idx[t] + 1
                /\ locations' = locations
          /\ (pc'[t] = "idle" /\ ret'.kind = "ok") =>
                locations' = HubsOf(SelectSeq(df[t], GoodCoordinates))]_vars

\* every row of a source with a bad record and a good one has been handled:
\* the registry holds the good one only
C10_Witness ==
    \E t \in Tasks :
        /\ InRows(t) /\ idx[t] > Len(df[t])
        /\ \E i, j \in 1..Len(df[t]) : BadCoordinates(df[t][i]) /\ GoodCoordinates(df[t][j])
        /\ Len(locations) = 1

(* ------------------- properties of the loaded records ------------------ *)
\* a raw record has no value for name, address, latitude or longitude
LacksRequired(row) ==
    \/ row.name \in {Absent, NoneStr}
    \/ row.address \in {Absent, NoneStr}
    \/ row.latitude.k = "none"
    \/ row.longitude.k = "none"

\* the load of task t handles the row at idx[t] in this step
HandlesRow(t) ==
    /\ InRows(t) /\ idx[t] <= Len(df[t])
    /\ (idx'[t] # idx[t] \/ pc'[t] # pc[t])

\* C11: a record that lacks a value for a required field (name, address,
\* latitude or longitude) is skipped by the load and does not become a hub,
\* and the load goes on with the remaining records.
C11_MissingFieldSkipped ==
    [][\A t \in Tasks :
          (HandlesRow(t) /\ LacksRequired(df[t][idx[t]])) =>
              /\ InRows(t)' /\ idx'[t] = idx[t] + 1
              /\ locations' = locations]_vars

\* C12: in every reachable state of the registry every hub has its latitude
\* within [-90, 90] and its longitude within [-180, 180].
C12_CoordinatesInRange ==
    \A i \in 1..Len(locations) :
        /\ locations[i].coordinates.latitude >= -90
        /\ locations[i].coordinates.latitude <= 90
        /\ locations[i].coordinates.longitude >= -180
        /\ locations[i].coordinates.longitude <= 180

\* a reload has handled every row of a source holding a record with a number
\* out of range, and the registry holds a hub
C12_Witness ==
    \E t \in Tasks :
        /\ InRows(t) /\ idx[t] > Len(df[t]) /\ last_loaded # NoneTime
        /\ \E i \in 1..Len(df[t]) :
              df[t][i].longitude.k = "num" /\ df[t][i].longitude.v > 180
        /\ locations # <<>>

LoadReturned == ret.op = "load_locations" /\ ret.kind = "ok"

\* C13: after a successful load no two hubs of the registry have the same
\* id; a record without id got one from the loader.
C13_IdsUnique ==
    LoadReturned =>
        \A i, j \in 1..Len(locations) : i # j => locations[i].id # locations[j].id

\* the active value a raw record carries: true when it has no active field
RecordActive(row) ==
    IF row.active = Absent THEN TRUE ELSE row.active \in {"true", "TRUE"}

\* C14: the hub loaded from a record has the record's active value as its
\* active flag, true when the record has no active field; a record marked
\* not active becomes an inactive hub.
C14_ActiveFlagFromRecord ==
    [][\A t \in Tasks :
          (HandlesRow(t) /\ Len(locations') = Len(locations) + 1) =>
              locations'[Len(locations')].active = RecordActive(df[t][idx[t]])]_vars

(* ---------------- properties of the structural queries ---------------- *)
\* C16: get_locations_count returns total = number of hubs, active = number
\* of hubs whose flag is true, inactive = number of hubs whose flag is
\* false, and total = active + inactive.
C16_CountsMatchRegistry ==
    ret.op = "get_locations_count" =>
        /\ ret.counts.total = Len(locations)
        /\ ret.counts.active = Cardinality(ActiveIdx)
        /\ ret.counts.inactive = Cardinality((1..Len(locations)) \ ActiveIdx)
        /\ ret.counts.total = ret.counts.active + ret.counts.inactive

\* counts of a registry with active and inactive hubs
C16_Witness ==
    /\ ret.op = "get_locations_count"
    /\ ret.counts.active >= 1 /\ ret.counts.inactive >= 1

\* C17: on a registry that no load has loaded successfully,
\* get_location_by_id returns None, get_locations_by_region returns an empty
\* sequence and get_locations_count returns zeros.
C17_NeverLoadedQueriesEmpty ==
    last_loaded = NoneTime =>
        /\ ret.op = "get_location_by_id" => ret.none
        /\ ret.op = "get_locations_by_region" => ret.hubs = <<>>
        /\ ret.op = "get_locations_count" => ret.counts = Counts(0, 0, 0)

\* the step of a resolver: it runs between two steps of the event loop and
\* leaves every coroutine where it is
ResolverStep ==
    /\ loop = NoTask /\ pc' = pc
    /\ ret'.op \in {"find_nearest_location", "find_nearest_n_locations"}

\* C18: find_nearest_location and find_nearest_n_locations leave the hub
\* sequence and last_loaded as they were, whether they return or raise.
C18_ResolversReadOnly ==
    [][ResolverStep => (locations' = locations /\ last_loaded' = last_loaded)]_vars

\* find_nearest_n_locations returned the second hub of the registry first:
\* the registry keeps its order
C18_Witness ==
    /\ IsNearestN /\ ret.kind = "ok" /\ Len(ret.list) = 2 /\ Len(locations) = 2
    /\ ret.list[1][1] = locations[2] /\ locations[1] # locations[2]

(* -------------------- properties of the application ------------------- *)
\* the handler of GET /locations/{location_id} ran on a loaded service
AnsweredGetLocation == request.route = "get_location" /\ request.dependency = "ok"

\* positions in locs of the hubs whose id is location_id
Matching(locs, location_id) == {i \in 1..Len(locs) : locs[i].id = location_id}

\* C15: get_location_by_id returns the first hub in registry order whose id
\* equals the requested id and None exactly when no hub has it, and
\* GET /locations/{location_id} answers 404 exactly in the None case.
C15_FirstByIdOr404 ==
    AnsweredGetLocation =>
        LET locs == request.location_service
            found == Matching(locs, request.location_id)
        IN  /\ response.status = 404 <=> found = {}
            /\ found = {} => ~response.result
            /\ found # {} =>
                 /\ response.status = 200 /\ response.result
                 /\ \E i \in found :
                      /\ response.location = locs[i]
                      /\ \A j \in found : i <= j

\* two different hubs carry the requested id and the first one is answered
C15_Witness ==
    /\ AnsweredGetLocation
    /\ Len(request.location_service) = 2
    /\ Matching(request.location_service, request.location_id) = {1, 2}
    /\ request.location_service[1] # request.location_service[2]
    /\ response.status = 200
    /\ response.location = request.location_service[1]

\* C19: the composer loads the registry once, at startup; once the
\* application has started, handling a request makes no further call of
\* load_locations.
C19_LoadedOnceAtStartup ==
    [][started => load_calls' = load_calls]_vars

\* the handler of POST /match ran on a loaded service
AnsweredMatch == request.route = "match" /\ request.dependency = "ok"

\* find_nearest_location raises on these locations
LookupRaises(locs) == \A i \in 1..Len(locs) : ~locs[i].active

\* C20: POST /match answers a GeocodingError with status 400 and a detail
\* 'Geocoding error', and a LocationServiceError of the lookup with status
\* 500 and a detail 'Location service error'; in both cases no match result
\* is returned and no notification is queued.
C20_MatchErrorsSurfaced ==
    AnsweredMatch =>
        /\ request.geocode.kind = "GeocodingError" =>
             /\ response.status = 400 /\ response.detail = "Geocoding error"
             /\ ~response.result /\ background_tasks = <<>>
        /\ (request.geocode.kind = "ok" /\ LookupRaises(request.location_service)) =>
             /\ response.status = 500 /\ response.detail = "Location service error"
             /\ ~response.result /\ background_tasks = <<>>

\* a notification was asked for, the address was geocoded and the registry
\* holds only an inactive hub: the lookup raised and 500 was answered
C20_Witness ==
    /\ AnsweredMatch /\ request.send_notification
    /\ request.geocode.kind = "ok"
    /\ request.location_service # <<>> /\ LookupRaises(request.location_service)
    /\ response.status = 500

(* ----------------------- properties of the distance ------------------- *)
\* calculate_distance returned
Measured == ret.op = "calculate_distance"

\* C27: the distance function is symmetric: the distance calculate_distance
\* gives for (p, q) is the distance of (q, p).
C27_DistanceSymmetric ==
    Measured => ret.distance = haversine(ret.other, ret.point)

\* the distance from a point of the equator to a pole, a quarter of a circle
C27_Witness ==
    /\ Measured
    /\ ret.point.latitude = 0 /\ ret.other.latitude = 90
    /\ ret.point.longitude # ret.other.longitude
    /\ ret.distance = 10008

(* ----------------------- properties of the geocoding ------------------ *)
\* the step is a call of geocode_address
GeocodeCall == geocode_ret'.call = geocode_ret.call + 1

\* C30: with caching enabled, once geocode_address has succeeded for an
\* address, a later call for this address returns what that call returned
\* and sends no request to the geocoding API.
C30_CachedAfterSuccess ==
    [][(GeocodeCall /\ cache_enabled /\ succeeded[geocode_ret'.address] # Unset) =>
         /\ api_requests' = api_requests
         /\ geocode_ret'.kind = "ok"
         /\ geocode_ret'.result = succeeded[geocode_ret'.address]]_vars

(* ------------------- properties of the other routes ------------------- *)
\* the handler of POST /match/batch ran on a loaded service
AnsweredBatch == request.route = "batch" /\ request.dependency = "ok"

\* C21: POST /match/batch with more addresses than max_batch_size is
\* answered 400 'Batch size exceeds maximum' before any address is processed:
\* no address is geocoded, matched or notified.
C21_OversizedBatchRejected ==
    (AnsweredBatch /\ Len(request.addresses) > request.max_batch_size) =>
        /\ response.status = 400 /\ response.detail = "Batch size exceeds maximum"
        /\ response.list = <<>>
        /\ request.geocode_calls = 0 /\ request.lookups = 0
        /\ background_tasks = <<>> /\ notifications = <<>>

\* two addresses that would both match were sent with a limit of one
C21_Witness ==
    /\ AnsweredBatch /\ request.max_batch_size = 1 /\ Len(request.addresses) = 2
    /\ request.send_notification
    /\ \A i \in 1..2 : request.addresses[i].kind = "ok"
    /\ ~LookupRaises(request.location_service)
    /\ response.status = 400

\* the match results a batch owes: one for each address, in input order,
\* whose geocoding succeeded and whose lookup did not raise
RECURSIVE Owed(_, _, _)
Owed(locs, addresses, i) ==
    IF i > Len(addresses) THEN <<>>
    ELSE LET rest == Owed(locs, addresses, i + 1)
             nearest == FindNearestLocation(locs, addresses[i].coordinates)
         IN  IF addresses[i].kind = "ok" /\ ~LookupRaises(locs)
             THEN <<MatchResult(addresses[i].coordinates, nearest.location,
                                nearest.distance)>> \o rest
             ELSE rest

\* C22: POST /match/batch within the size limit returns one match result for
\* each address geocoded and matched successfully, in the order of the input;
\* an address that fails neither stops the addresses after it nor fails the
\* request.
C22_BatchResultsInOrder ==
    (AnsweredBatch /\ Len(request.addresses) <= request.max_batch_size) =>
        /\ response.status = 200
        /\ response.list = Owed(request.location_service, request.addresses, 1)
        /\ request.geocode_calls = Len(request.addresses)

\* the first address failed to geocode and the second one was matched
C22_Witness ==
    /\ AnsweredBatch /\ Len(request.addresses) = 2
    /\ request.addresses[1].kind = "GeocodingError"
    /\ request.addresses[2].kind = "ok"
    /\ response.status = 200 /\ Len(response.list) = 1
    /\ response.list[1].geocoded_coordinates = request.addresses[2].coordinates

\* the match result POST /match answered with
AnsweredResult ==
    MatchResult(request.geocode.coordinates, response.location, response.distance_km)

\* C23: for a POST /match that succeeds, send_notification is invoked exactly
\* once when send_notification is true and never when it is false (the task
\* is either still queued or has run), and only with the match result that
\* was built; a POST /match that fails invokes nothing.
C23_NotifiedOnceAfterResult ==
    request.route = "match" =>
        /\ response.status = 200 =>
             Len(background_tasks) + Len(notifications)
                 = IF request.send_notification THEN 1 ELSE 0
        /\ response.status # 200 => notifications = <<>>
        /\ \A i \in 1..Len(notifications) :
             /\ response.result
             /\ notifications[i].match_result = AnsweredResult

\* the background task of a successful match has run: one invocation
C23_Witness ==
    /\ AnsweredMatch /\ response.status = 200 /\ request.send_notification
    /\ background_tasks = <<>>
    /\ Len(notifications) = 1
    /\ notifications[1].match_result = AnsweredResult

\* a GET /locations/<segment> reached a handler
AnsweredSegment ==
    request.route \in {"get_location", "get_location_stats"} /\ request.dependency = "ok"

\* C24: GET /locations/stats is answered 200 with the counts of
\* get_locations_count, by get_location_stats and by no other route.
C24_StatsRouteAnswers ==
    (AnsweredSegment /\ request.location_id = "stats") =>
        /\ request.route = "get_location_stats"
        /\ response.status = 200
        /\ response.counts = GetLocationsCount(request.location_service)

\* the handler of GET /locations ran on a loaded service
AnsweredLocations == request.route = "get_locations" /\ request.dependency = "ok"

\* whether a hub passes the filters the request asks for: region is NoneStr
\* when the parameter is not given
PassesFilters(loc, active_only, region) ==
    /\ active_only => loc.active
    /\ region # NoneStr => loc.region = region

\* C26: GET /locations returns, in registry order, exactly the hubs that
\* pass the requested filters: active hubs only when active_only is true,
\* and only hubs of the region when a region is given.
C26_LocationsFiltered ==
    AnsweredLocations =>
        /\ response.status = 200
        /\ response.list =
               SelectSeq(request.location_service,
                         LAMBDA loc : PassesFilters(loc, request.active_only, request.region))

(* ---------------------- properties of the webhooks -------------------- *)
\* the handler of a webhook route ran on a loaded service
AnsweredWebhook(route) == request.route = route /\ request.dependency = "ok"

\* the request was rejected before any processing
NothingProcessed ==
    /\ ~response.result
    /\ ~request.extracted
    /\ request.geocode_calls = 0 /\ request.lookups = 0
    /\ background_tasks = <<>> /\ notifications = <<>>

\* the signature check of the generic webhook lets the request pass
PassesGenericSignature == ~settings.WEBHOOK_SECRET

\* C25: POST /webhooks/generic with a payload that lacks address or email is
\* answered 400 with a detail 'Missing required field', and nothing is
\* geocoded, matched or notified.
C25_GenericMissingField ==
    (AnsweredWebhook("generic") /\ PassesGenericSignature
     /\ ~({"address", "email"} \subseteq request.payload)) =>
        /\ response.status = 400 /\ response.detail = "Missing required field"
        /\ NothingProcessed

\* the signature check of the Typeform webhook lets the request pass
PassesTypeformSignature ==
    ~settings.TYPEFORM_WEBHOOK_SECRET \/ request.signature = "valid"

\* C28: POST /webhooks/typeform whose form response yields no address or no
\* email is answered 400 'Could not extract address from form response', and
\* nothing is geocoded, matched or notified.
C28_TypeformNoAddress ==
    (AnsweredWebhook("typeform") /\ PassesTypeformSignature
     /\ ~({"address", "email"} \subseteq request.payload)) =>
        /\ response.status = 400
        /\ response.detail = "Could not extract address from form response"
        /\ NothingProcessed

\* a webhook whose secret is configured came without a valid signature
BadSignature ==
    /\ request.signature \in {"missing", "invalid"}
    /\ \/ AnsweredWebhook("typeform") /\ settings.TYPEFORM_WEBHOOK_SECRET
       \/ AnsweredWebhook("generic") /\ settings.WEBHOOK_SECRET

\* C29: when its secret is configured, a webhook request whose signature is
\* missing or does not validate is answered 401 before any processing: no
\* address is extracted, geocoded or matched and no notification is queued.
C29_BadSignatureRejected ==
    BadSignature => (response.status = 401 /\ NothingProcessed)

\* a Typeform webhook with a complete form response, an address that would
\* geocode and an invalid signature was turned away
C29_Witness ==
    /\ AnsweredWebhook("typeform") /\ settings.TYPEFORM_WEBHOOK_SECRET
    /\ request.signature = "invalid"
    /\ request.payload = {"address", "email"}
    /\ request.geocode.kind = "ok"
    /\ ~LookupRaises(request.location_service)
    /\ response.status = 401

====
